---- MODULE Spec2Model ----
(***************************************************************************)
(* A model of viewclust.job_use (src/viewclust/job_use.py): one call of    *)
(* the function, from its arguments to its return value or exception.      *)
(*                                                                         *)
(* Timestamps are whole minutes since midnight of the first day.  A        *)
(* missing timestamp (NaT) and an empty string argument are the empty      *)
(* tuple << >>; a present one is the 1-tuple <<t>>.  A pandas Series is a   *)
(* record [index |-> set of timestamps, data |-> function on the labels    *)
(* that hold a number]: a label of index that is not in DOMAIN data holds  *)
(* NaN.  A DataFrame is a sequence of rows, each row a function from       *)
(* column names (and "index", the row label) to values.                    *)
(***************************************************************************)
EXTENDS Integers, Sequences, FiniteSets, TLC

\* ------------------------------------------------------------------ bounds
MaxJobs == 2        \* rows of the generated job frames
MaxHour == 2        \* generated events fall in hours 0..MaxHour
Now == 150          \* datetime.now(), minutes

\* ------------------------------------------------------- program constants
MinutesPerHour == 60     \* pd.Grouper(freq='H')
MemPerCore == 4096       \* jobs['mem'] / 4096.0

NaT == << >>
Ts(t) == <<t>>
IsNaT(x) == x = NaT
Val(x) == x[1]

\* --------------------------------------------------------- generic helpers
Min(S) == CHOOSE x \in S : \A y \in S : x <= y
Max(S) == CHOOSE x \in S : \A y \in S : x >= y

RECURSIVE SumOver(_, _)
\* sum of f[k] over the labels k of the finite set S
SumOver(f, S) ==
    IF S = {} THEN 0
    ELSE LET k == CHOOSE x \in S : TRUE IN f[k] + SumOver(f, S \ {k})

EmptySeries == [index |-> {}, data |-> [k \in {} |-> 0]]
Full(idx, f) == [index |-> idx, data |-> [k \in idx |-> f[k]]]

\* -------------------------------------------------------- pandas operators
\* DataFrame.sort_values(by=['submit']) returns a NEW frame holding the rows
\* (each with its label) ordered by submit; the order of rows with equal
\* keys is not fixed by the default (unstable) sort.
SortedBySubmit(rows) ==
    { [i \in DOMAIN rows |-> rows[p[i]]] :
        p \in { q \in [DOMAIN rows -> DOMAIN rows] :
                  /\ \A i, j \in DOMAIN rows : i # j => q[i] # q[j]
                  /\ \A i, j \in DOMAIN rows :
                        i < j => Val(rows[q[i]].submit) <= Val(rows[q[j]].submit) } }

\* frame[name] = vals : the frame with column `name` set row by row
SetColumn(rows, name, vals) ==
    [i \in DOMAIN rows |->
        [c \in DOMAIN rows[i] \cup {name} |->
            IF c = name THEN vals[i] ELSE rows[i][c]]]

Columns(rows) == DOMAIN rows[1] \ {"index"}

\* the slip of rounding a timestamp to the nearest hour
HourOfRounded(t) == ((t + MinutesPerHour \div 2) \div MinutesPerHour) * MinutesPerHour

\* the timestamp floored to its hour: the label of its Grouper(freq='H') bin
HourOf(t) == (t \div MinutesPerHour) * MinutesPerHour

\* jobs.copy() re-indexed by one timestamp column: the rows whose new label
\* is not NaT are the ones the Grouper bins
Present(rows, col) == { i \in DOMAIN rows : ~IsNaT(rows[i][col]) }

\* frame.groupby(pd.Grouper(freq='H')).sum()['use_unit'].fillna(0) of the
\* frame re-indexed by `col`: one bin per hour from the hour of the earliest
\* label to the hour of the latest one, each holding the sum of use_unit of
\* the rows whose label falls in that hour (0 for a bin with no row).
HourlySum(rows, col) ==
    LET P == Present(rows, col)
        hrs == { HourOf(Val(rows[i][col])) : i \in P }
        lo == Min(hrs)
        hi == Max(hrs)
        idx == { lo + k * MinutesPerHour : k \in 0..((hi - lo) \div MinutesPerHour) }
        use == [i \in DOMAIN rows |-> rows[i]["use_unit"]]
    IN  Full(idx, [h \in idx |->
                SumOver(use, { i \in P : HourOf(Val(rows[i][col])) = h })])

\* a.subtract(b, fill_value=0): the union of the labels, a label missing on
\* one side counting as 0 there
Subtract(a, b) ==
    LET idx == a.index \cup b.index
        get(s, k) == IF k \in DOMAIN s.data THEN s.data[k] ELSE 0
    IN  Full(idx, [k \in idx |-> get(a, k) - get(b, k)])

\* Series.cumsum() / np.cumsum: running total in label order
CumSum(s) ==
    Full(s.index, [k \in s.index |->
            SumOver(s.data, { j \in s.index : j <= k })])

\* the slip of slicing s.loc[lo:], with no upper end
LocFrom(s, lo, hi) ==
    LET idx == { k \in s.index : lo <= k }
    IN  [index |-> idx, data |-> [k \in idx \cap DOMAIN s.data |-> s.data[k]]]

\* s.loc[lo:hi] on a sorted DatetimeIndex: both ends inclusive
Loc(s, lo, hi) ==
    LET idx == { k \in s.index : lo <= k /\ k <= hi }
    IN  [index |-> idx, data |-> [k \in idx \cap DOMAIN s.data |-> s.data[k]]]

\* the slip of a.subtract(b, fill_value=0) in place of a - b
MinusFill(a, b) == Subtract(a, b)

\* a - b : the union of the labels, NaN wherever either side has no number
Minus(a, b) ==
    LET idx == a.index \cup b.index
        both == DOMAIN a.data \cap DOMAIN b.data
    IN  [index |-> idx, data |-> [k \in both |-> a.data[k] - b.data[k]]]

\* viewclust.target_series([(d_from, d_to, level)]): an hourly series holding
\* `level` at d_from, d_from + 1h, ... over [d_from, d_to)
target_series(from, to, level) ==
    LET idx == { from + k * MinutesPerHour :
                   k \in { n \in 0..((Max({to - from, 0})) \div MinutesPerHour) :
                             from + n * MinutesPerHour < to } }
    IN  Full(idx, [k \in idx |-> level])

\* ------------------------------------------------------------------ inputs
\* requested resources of the i-th generated row
Requests(i) == [reqcpus |-> i, mem |-> MemPerCore * 3 * (i % 2)]

Hours == 0..MaxHour
OptHours(from) == {NaT} \cup { Ts(h) : h \in from..MaxHour }

\* a generated row: submitted at hh:10, started (if at all) at hh:40 of the
\* same or a later hour, ended (if at all) at hh:50 of the start hour or later
GenRow(i, s, st, en) ==
    [index |-> i - 1,
     submit |-> Ts(s * MinutesPerHour + 10),
     start |-> IF IsNaT(st) THEN NaT ELSE Ts(Val(st) * MinutesPerHour + 40),
     end |-> IF IsNaT(en) THEN NaT ELSE Ts(Val(en) * MinutesPerHour + 50),
     reqcpus |-> Requests(i).reqcpus,
     mem |-> Requests(i).mem]

Lifecycles ==
    { <<s, st, en>> \in Hours \X OptHours(0) \X OptHours(0) :
        /\ ~IsNaT(st) => s <= Val(st)
        /\ ~IsNaT(en) => (~IsNaT(st) /\ Val(st) <= Val(en)) }

GenFrame(n, l) == [i \in 1..n |-> GenRow(i, l[i][1], l[i][2], l[i][3])]

\* the three-job scenario: A 00:10/00:40/02:15 x2, B 00:50/01:05/01:50 x3,
\* C 01:30, never started, x1
ScenarioJobs ==
    << [index |-> 0, submit |-> Ts(10), start |-> Ts(40), end |-> Ts(135),
        reqcpus |-> 2, mem |-> 4096],
       [index |-> 1, submit |-> Ts(50), start |-> Ts(65), end |-> Ts(110),
        reqcpus |-> 3, mem |-> 16384],
       [index |-> 2, submit |-> Ts(90), start |-> NaT, end |-> NaT,
        reqcpus |-> 1, mem |-> 0] >>

\* rows not in submit order, one of them ending before it starts
IrregularJobs ==
    << [index |-> 7, submit |-> Ts(90), start |-> Ts(125), end |-> Ts(100),
        reqcpus |-> 1, mem |-> 8192],
       [index |-> 3, submit |-> Ts(10), start |-> Ts(20), end |-> Ts(30),
        reqcpus |-> 2, mem |-> 0] >>

Units == {"cpu", "cpu-eqv", "gpu", "gpu-eqv"}
Paths == {"", "out.pkl"}
IntTarget == [kind |-> "int", level |-> 5]
Targets ==
    { IntTarget,
      [kind |-> "series", series |-> target_series(0, 240, 5)],
      [kind |-> "series", series |-> target_series(600, 660, 5)] }

Args(j, from, tgt, to, unit, sq, sr, sd) ==
    [jobs |-> j, d_from |-> from, target |-> tgt, d_to |-> to, use_unit |-> unit,
     serialize_queued |-> sq, serialize_running |-> sr, serialize_dist |-> sd]

\* the calls made: the generated frames under one window and target, and the
\* two written-out frames under every combination of the other arguments
Called(a) ==
    \/ \E n \in 1..MaxJobs : \E l \in [1..n -> Lifecycles] :
         \E u \in {"cpu", "cpu-eqv"} :
           a = Args(GenFrame(n, l), 60, IntTarget, Ts(120), u, "", "", "")
    \/ \E j \in {ScenarioJobs, IrregularJobs}, from \in {0, 60, 240}, tgt \in Targets,
          to \in {NaT, Ts(60), Ts(180)}, u \in Units,
          sq \in Paths, sr \in Paths, sd \in Paths :
           a = Args(j, from, tgt, to, u, sq, sr, sd)

\* ------------------------------------------------------------------- state
VARIABLES
    pc,                \* where the call is
    args,              \* the arguments as passed
    heap,              \* the DataFrame objects: heap[CallerRef] is the caller's
    jobs,              \* the local name `jobs`: a reference into heap
    d_to,              \* the local d_to, minutes
    queued, running,   \* the level series
    clust, sum_target, sum_running, dist_from_target,
    pickles,           \* each to_pickle: "none", "written" or "failed"
    result             \* what the call gave back

vars == <<pc, args, heap, jobs, d_to, queued, running, clust, sum_target,
          sum_running, dist_from_target, pickles, result>>

CallerRef == 1
Writes == {"running", "queued", "dist"}
NoPickles == [w \in Writes |-> "none"]
Refs == {1, 2}
Pending == [kind |-> "pending"]

Init ==
    /\ Called(args)
    /\ pc = "called"
    /\ heap = [r \in Refs |-> IF r = CallerRef THEN args.jobs ELSE << >>]
    /\ jobs = CallerRef
    /\ d_to = args.d_to
    /\ queued = EmptySeries /\ running = EmptySeries /\ clust = EmptySeries
    /\ sum_target = EmptySeries /\ sum_running = EmptySeries
    /\ dist_from_target = EmptySeries
    /\ pickles = NoPickles
    /\ result = Pending

\* ----------------------------------------------------------------- actions
\* lines 46-47: an empty d_to becomes the current time
DefaultDTo(to) == IF IsNaT(to) THEN Ts(Now) ELSE to

\* the slip of sorting in place (inplace=True): the caller's object is written
SortValuesInplace(h, ref) ==
    { [heap |-> [h EXCEPT ![ref] = s], ref |-> ref] : s \in SortedBySubmit(h[ref]) }

\* line 49, jobs = jobs.sort_values(by=['submit']): a new object is allocated
\* for the sorted frame and the local name is bound to it; the object the
\* caller passed is not written.  The set of possible <<heap, reference>>.
SortValues(h, ref) ==
    { [heap |-> [h EXCEPT ![2] = s], ref |-> 2] : s \in SortedBySubmit(h[ref]) }

\* jobs[name] = vals: writes the object the local name refers to
Assign(h, ref, name, vals) == [h EXCEPT ![ref] = SetColumn(h[ref], name, vals)]

\* line 54: jobs['mem'] / 4096.0 (the generated mem values are whole multiples
\* of 4096, so the quotient is exact)
MemScale(rows) == [i \in DOMAIN rows |-> rows[i]["mem"] \div MemPerCore]

\* line 55: jobs[['mem_scale', 'reqcpus']].max(axis=1)
RowMax(rows) ==
    [i \in DOMAIN rows |->
        IF rows[i]["mem_scale"] >= rows[i]["reqcpus"]
        THEN rows[i]["mem_scale"] ELSE rows[i]["reqcpus"]]

Column(rows, name) == [i \in DOMAIN rows |-> rows[i][name]]

Raise(exc) == [kind |-> "raise", exc |-> exc]

\* lines 46-52, use_unit == 'cpu'
NormalizeCpu ==
    /\ pc = "called"
    /\ args.use_unit = "cpu"
    /\ d_to' = DefaultDTo(d_to)
    /\ \E s \in SortValues(heap, jobs) :
         /\ jobs' = s.ref
         /\ heap' = Assign(s.heap, s.ref, "use_unit", Column(s.heap[s.ref], "reqcpus"))
    /\ pc' = "normalized"
    /\ UNCHANGED <<args, queued, running, clust, sum_target, sum_running,
                   dist_from_target, pickles, result>>

\* lines 46-55, use_unit == 'cpu-eqv'
NormalizeCpuEqv ==
    /\ pc = "called"
    /\ args.use_unit = "cpu-eqv"
    /\ d_to' = DefaultDTo(d_to)
    /\ \E s \in SortValues(heap, jobs) :
         LET h1 == Assign(s.heap, s.ref, "mem_scale", MemScale(s.heap[s.ref]))
         IN  /\ jobs' = s.ref
             /\ heap' = Assign(h1, s.ref, "use_unit", RowMax(h1[s.ref]))
    /\ pc' = "normalized"
    /\ UNCHANGED <<args, queued, running, clust, sum_target, sum_running,
                   dist_from_target, pickles, result>>

\* lines 46-61, use_unit == 'gpu': the first statement of the try block
\* raises ValueError, which the `except KeyError` clause does not catch, so
\* neither reqgres nor reqtres is read and the exception leaves job_use
NormalizeGpu ==
    /\ pc = "called"
    /\ args.use_unit = "gpu"
    /\ d_to' = DefaultDTo(d_to)
    /\ \E s \in SortValues(heap, jobs) :
         /\ jobs' = s.ref
         /\ heap' = s.heap
    /\ pc' = "raised"
    /\ result' = Raise("ValueError")
    /\ UNCHANGED <<args, queued, running, clust, sum_target, sum_running,
                   dist_from_target, pickles>>

\* the slip of letting an unknown unit fall through as 'cpu'
NormalizeUnsupportedAsCpu ==
    /\ pc = "called"
    /\ args.use_unit \notin {"cpu", "cpu-eqv", "gpu"}
    /\ d_to' = DefaultDTo(d_to)
    /\ \E s \in SortValues(heap, jobs) :
         /\ jobs' = s.ref
         /\ heap' = Assign(s.heap, s.ref, "use_unit", Column(s.heap[s.ref], "reqcpus"))
    /\ pc' = "normalized"
    /\ UNCHANGED <<args, queued, running, clust, sum_target, sum_running,
                   dist_from_target, pickles, result>>

\* lines 46-49 and 69-72, any other use_unit: a bare return
NormalizeUnsupported ==
    /\ pc = "called"
    /\ args.use_unit \notin {"cpu", "cpu-eqv", "gpu"}
    /\ d_to' = DefaultDTo(d_to)
    /\ \E s \in SortValues(heap, jobs) :
         /\ jobs' = s.ref
         /\ heap' = s.heap
    /\ pc' = "returned"
    /\ result' = [kind |-> "None"]
    /\ UNCHANGED <<args, queued, running, clust, sum_target, sum_running,
                   dist_from_target, pickles>>

\* Grouper(freq='H') over an index that holds no timestamp at all cannot lay
\* out its bins (the range from NaT to NaT) and raises
CanBin(rows, col) == Present(rows, col) # {}

\* lines 81-83 before .cumsum(): submitted minus started, hour by hour
QueuedDelta(rows) == Subtract(HourlySum(rows, "submit"), HourlySum(rows, "start"))
\* lines 84-86 before .cumsum(): started minus ended, hour by hour
RunningDelta(rows) == Subtract(HourlySum(rows, "start"), HourlySum(rows, "end"))

\* the slip of leaving the hourly differences uncumulated
QueuedDeltasOnly(rows) == QueuedDelta(rows)

\* lines 81-83
Queued(rows) == CumSum(QueuedDelta(rows))
\* lines 84-86
Running(rows) == CumSum(RunningDelta(rows))

\* lines 74-86: the three re-indexed copies and the two level series
Aggregate ==
    /\ pc = "normalized"
    /\ \A col \in {"submit", "start", "end"} : CanBin(heap[jobs], col)
    /\ queued' = Queued(heap[jobs])
    /\ running' = Running(heap[jobs])
    /\ pc' = "aggregated"
    /\ UNCHANGED <<args, heap, jobs, d_to, clust, sum_target, sum_running,
                   dist_from_target, pickles, result>>

\* lines 74-86 when one of the three views holds no timestamp
AggregateRaises ==
    /\ pc = "normalized"
    /\ \E col \in {"submit", "start", "end"} : ~CanBin(heap[jobs], col)
    /\ pc' = "raised"
    /\ result' = Raise("ValueError")
    /\ UNCHANGED <<args, heap, jobs, d_to, queued, running, clust, sum_target,
                   sum_running, dist_from_target, pickles>>

\* lines 89-93
Target(a, to) ==
    IF a.target.kind = "int"
    THEN target_series(a.d_from, Val(to), a.target.level)
    ELSE a.target.series

\* the slip of cutting the window before cumulating
SumRunningWindowFirst(run, from, to) == CumSum(Loc(run, from, to))

\* lines 96 and 101-102: cumulate the whole running series, then cut the window
SumRunning(run, from, to) == Loc(CumSum(run), from, to)

\* lines 88-104
Align ==
    /\ pc = "aggregated"
    /\ clust' = Target(args, d_to)
    /\ sum_target' = Loc(CumSum(clust'), args.d_from, Val(d_to))
    /\ sum_running' = SumRunning(running, args.d_from, Val(d_to))
    /\ dist_from_target' = Minus(sum_running', sum_target')
    /\ pc' = "aligned"
    /\ UNCHANGED <<args, heap, jobs, d_to, queued, running, pickles, result>>

\* lines 106-111: the writes asked for, in the order the code makes them
Requested(a) ==
    SelectSeq(<<"running", "queued", "dist">>,
              LAMBDA w : CASE w = "running" -> a.serialize_running # ""
                           [] w = "queued" -> a.serialize_queued # ""
                           [] w = "dist" -> a.serialize_dist # "")

Range(q) == { q[i] : i \in DOMAIN q }

\* lines 106-111, every to_pickle succeeding
Serialize ==
    /\ pc = "aligned"
    /\ pickles' = [w \in Writes |->
                     IF w \in Range(Requested(args)) THEN "written" ELSE "none"]
    /\ pc' = "serialized"
    /\ UNCHANGED <<args, heap, jobs, d_to, queued, running, clust, sum_target,
                   sum_running, dist_from_target, result>>

\* lines 106-111, the n-th requested to_pickle failing: its OSError is not
\* caught, so the writes before it stay made, the later ones are not tried
\* and the exception leaves job_use
SerializeFails ==
    /\ pc = "aligned"
    /\ \E n \in DOMAIN Requested(args) :
         pickles' = [w \in Writes |->
                       IF w \in Range(SubSeq(Requested(args), 1, n - 1)) THEN "written"
                       ELSE IF w = Requested(args)[n] THEN "failed" ELSE "none"]
    /\ pc' = "raised"
    /\ result' = Raise("OSError")
    /\ UNCHANGED <<args, heap, jobs, d_to, queued, running, clust, sum_target,
                   sum_running, dist_from_target>>

\* line 113
Return ==
    /\ pc = "serialized"
    /\ result' = [kind |-> "tuple", clust |-> clust, queued |-> queued,
                  running |-> running, dist_from_target |-> dist_from_target]
    /\ pc' = "returned"
    /\ UNCHANGED <<args, heap, jobs, d_to, queued, running, clust, sum_target,
                   sum_running, dist_from_target, pickles>>

Next ==
    \/ NormalizeCpu
    \/ NormalizeCpuEqv
    \/ NormalizeGpu
    \/ NormalizeUnsupported
    \/ Aggregate
    \/ AggregateRaises
    \/ Align
    \/ Serialize
    \/ SerializeFails
    \/ Return

Spec == Init /\ [][Next]_vars

\* ------------------------------------------------------------------ claims
Returned == pc = "returned" /\ result.kind = "tuple"
Rows == DOMAIN args.jobs
InWindow(t) == args.d_from <= t /\ t <= Val(d_to)

\* the usage of one row of the caller's frame under the call's unit
Usage(row) ==
    IF args.use_unit = "cpu" \/ MemPerCore * row.reqcpus >= row.mem
    THEN row.reqcpus
    ELSE row.mem \div MemPerCore

\* total usage of the rows whose `col` event happened before the end of hour t
EventTotal(col, t) ==
    SumOver([i \in Rows |-> Usage(args.jobs[i])],
            { i \in Rows : /\ ~IsNaT(args.jobs[i][col])
                           /\ Val(args.jobs[i][col]) < t + MinutesPerHour })

\* the hours that hold an event of column `col`
EventHours(col) ==
    { h \in 0..((MaxHour + 3) * MinutesPerHour) :
        /\ h % MinutesPerHour = 0
        /\ \E i \in Rows : /\ ~IsNaT(args.jobs[i][col])
                           /\ h <= Val(args.jobs[i][col])
                           /\ Val(args.jobs[i][col]) < h + MinutesPerHour }

\* C1: with use_unit cpu or cpu-eqv, at every hour t of the returned series
\* queued[t] is the usage submitted up to hour t minus the usage started up to
\* hour t, and running[t] the usage started minus the usage ended; a row
\* without a start (or end) adds nothing to the started (or ended) total.
C1_LevelsCountEveryEventOnce ==
    Returned =>
        /\ \A t \in result.queued.index :
             result.queued.data[t] = EventTotal("submit", t) - EventTotal("start", t)
        /\ \A t \in result.running.index :
             result.running.data[t] = EventTotal("start", t) - EventTotal("end", t)

C1_Witness ==
    /\ Returned
    /\ args.use_unit = "cpu-eqv"
    /\ \E i \in Rows : IsNaT(args.jobs[i].start)
    /\ \E i, j \in Rows :
         /\ args.jobs[i].submit # args.jobs[j].submit
         /\ HourOf(Val(args.jobs[i].submit)) = HourOf(Val(args.jobs[j].submit))
    /\ \E t \in result.running.index : result.running.data[t] # 0

CumulativeAt(s, t) == SumOver(s.data, { h \in s.index : h <= t })

\* C3 as stated, for a call that passes its target as a series: the distance
\* series has exactly the timestamps shared by the windowed cumulative
\* running and target series, each holding
\* running_cumulative[t] - target_cumulative[t].
C3_DistanceOnSharedTimestampsOnly ==
    (Returned /\ args.target.kind = "series") =>
        /\ result.dist_from_target.index = sum_running.index \cap sum_target.index
        /\ \A t \in result.dist_from_target.index :
             /\ t \in DOMAIN result.dist_from_target.data
             /\ result.dist_from_target.data[t]
                  = CumulativeAt(result.running, t) - CumulativeAt(result.clust, t)

\* C3 as amended: the distance series has one entry for each timestamp of
\* [d_from, d_to] present in the running series or in the target series; the
\* entry holds running_cumulative[t] - target_cumulative[t] where both have
\* the timestamp and no number (NaN) where only one has it; with no
\* timestamp of either in the window the series is empty.
C3_DistanceOnEitherTimestamp ==
    Returned =>
        LET d == result.dist_from_target
            r == result.running
            c == result.clust
        IN  /\ d.index = { t \in r.index \cup c.index : InWindow(t) }
            /\ DOMAIN d.data = { t \in r.index \cap c.index : InWindow(t) }
            /\ \A t \in DOMAIN d.data :
                 d.data[t] = CumulativeAt(r, t) - CumulativeAt(c, t)

C3_Witness ==
    /\ Returned
    /\ \E t \in DOMAIN result.dist_from_target.data :
         result.dist_from_target.data[t] # 0
    /\ \E t \in result.dist_from_target.index :
         t \notin DOMAIN result.dist_from_target.data

\* every hour from the earliest event to the latest over the three views
FullSpan ==
    LET ev == EventHours("submit") \cup EventHours("start") \cup EventHours("end")
    IN  { h \in Min(ev)..Max(ev) : h % MinutesPerHour = 0 }

\* C4: the returned queued and running series each hold one entry for every
\* hour from the earliest to the latest event over the submit, start and end
\* views, consecutive timestamps one hour apart.
C4_LevelsCoverFullHourlySpan ==
    Returned =>
        /\ result.queued.index = FullSpan
        /\ result.running.index = FullSpan

ScenarioCall ==
    /\ args.jobs = ScenarioJobs
    /\ args.use_unit = "cpu"
    /\ args.d_from = 0
    /\ args.d_to = Ts(180)
    /\ args.target = IntTarget

\* C5 as stated: in the three-job scenario hour 00 has queued delta +3 and
\* running delta +2, hour 01 has queued delta -2 and running delta -2, and
\* the running level after hour 01 is 0.
C5_ScenarioAsStated ==
    (ScenarioCall /\ Returned) =>
        /\ QueuedDelta(heap[jobs]).data[0] = 3
        /\ RunningDelta(heap[jobs]).data[0] = 2
        /\ QueuedDelta(heap[jobs]).data[60] = -2
        /\ RunningDelta(heap[jobs]).data[60] = -2
        /\ result.running.data[60] = 0

\* C5 as amended: in the three-job scenario hour 00 has queued delta +3 and
\* running delta +2, hour 01 has queued delta -2 and running delta 0 (B
\* starts and ends; A ends at 02:15, in hour 02), and the running level after
\* hour 01 is 2; it is 0 after hour 02.
C5_ScenarioAsComputed ==
    (ScenarioCall /\ Returned) =>
        /\ QueuedDelta(heap[jobs]).data[0] = 3
        /\ RunningDelta(heap[jobs]).data[0] = 2
        /\ QueuedDelta(heap[jobs]).data[60] = -2
        /\ RunningDelta(heap[jobs]).data[60] = 0
        /\ result.running.data[60] = 2
        /\ result.running.data[120] = 0

C5_Witness == ScenarioCall /\ Returned /\ pickles = NoPickles

\* C6: a use_unit other than cpu, cpu-eqv and gpu makes job_use return
\* nothing: no series is computed and no pickle is written, whatever the
\* serialization paths.
C6_UnsupportedUnitReturnsNothing ==
    args.use_unit \notin {"cpu", "cpu-eqv", "gpu"} =>
        /\ pc \in {"called", "returned"}
        /\ pc = "returned" => result = [kind |-> "None"]
        /\ queued = EmptySeries /\ running = EmptySeries /\ clust = EmptySeries
        /\ dist_from_target = EmptySeries
        /\ pickles = NoPickles

C6_Witness ==
    /\ args.use_unit = "gpu-eqv"
    /\ pc = "returned"
    /\ args.serialize_running # "" /\ args.serialize_queued # ""
    /\ args.serialize_dist # ""

\* C7: with use_unit gpu the call is never a hard failure: it falls back to
\* the alternate field and goes on to produce its four results.
C7_GpuCallNeverFails ==
    args.use_unit = "gpu" => pc # "raised"

\* C8: a failing write neither alters nor discards the result: job_use still
\* returns the 4-tuple it returns with serialization disabled.
C8_WriteFailureKeepsResult ==
    (pc \in {"returned", "raised"} /\ \E w \in Writes : pickles[w] = "failed") =>
        result = [kind |-> "tuple", clust |-> clust, queued |-> queued,
                  running |-> running, dist_from_target |-> dist_from_target]

\* C9: the caller's job collection is the same after the call as before: its
\* row order, its row labels and its columns.
C9_CallerFrameUnchanged == heap[CallerRef] = args.jobs

C9_Witness ==
    /\ Returned
    /\ jobs # CallerRef
    /\ Columns(heap[jobs]) = Columns(args.jobs) \cup {"mem_scale", "use_unit"}
    /\ heap[jobs][1].index # args.jobs[1].index

\* C10: the cumulative running series is cumulated over the whole running
\* series and only then cut to the window: at every timestamp t kept, its
\* value is the sum of running[h] over every hour h <= t of the running
\* series, hours before d_from included, and every timestamp of running in
\* the window is kept.
C10_CumulatedBeforeWindowing ==
    pc \in {"aligned", "serialized", "returned"} =>
        /\ sum_running.index = { t \in running.index : InWindow(t) }
        /\ \A t \in sum_running.index :
             sum_running.data[t] = CumulativeAt(running, t)

C10_Witness ==
    /\ pc = "aligned"
    /\ \E h \in running.index : h < args.d_from /\ running.data[h] # 0
    /\ \E t \in DOMAIN dist_from_target.data : t > args.d_from

====
